---- MODULE Spec2Model ----
(***************************************************************************)
(* Model of the few-shot decision layer of MetaDialog:                     *)
(*   models/few_shot_seq_labeler.py      FewShotSeqLabeler,                *)
(*                                       SchemaFewShotSeqLabeler           *)
(*   models/few_shot_text_classifier.py  FewShotTextClassifier,            *)
(*                                       SchemaFewShotTextClassifier       *)
(* An orchestrator is constructed once and its forward is then called on  *)
(* a batch.  The emission scorer, the transition scorer and the decoders   *)
(* are collaborators: what they return is part of the input of a call.     *)
(***************************************************************************)
EXTENDS Integers, Sequences, FiniteSets

VARIABLES pc, self, args, ret, calls, emb_log

vars == <<pc, self, args, ret, calls, emb_log>>

(* ------------------------------ bounds --------------------------------- *)

\* largest size of the full tag alphabet (pad label 0 included)
MaxNumTags == 3
\* largest batch size of a forward call
MaxBatch == 2
\* largest test length (sequence labeling) / multi-label number (classification)
MaxLen == 2

(* --------------------------- Python values ----------------------------- *)

NoneV == [type |-> "NoneType"]

IsNone(v) == v.type = "NoneType"

\* a torch tensor: its shape and its elements in row-major order
Tensor(shape, data) == [type |-> "Tensor", shape |-> shape, data |-> data]

\* a zero-dimensional tensor
Scalar(v) == Tensor(<<>>, <<v>>)

\* a raised exception
Raised(name, where) == [type |-> name, where |-> where]

\* element (i, j) of a two-dimensional tensor
At(t, i, j) == t.data[(i - 1) * t.shape[2] + j]

\* the two-dimensional tensor of shape (r, c) whose element (i, j) is f[i][j]
Matrix(r, c, f) ==
    Tensor(<<r, c>>, [k \in 1..(r * c) |-> f[((k - 1) \div c) + 1][((k - 1) % c) + 1]])

\* row b of a two-dimensional tensor, as a Python list (tensor.tolist()[b])
Row(t, b) == [i \in 1..t.shape[2] |-> At(t, b, i)]

RECURSIVE SumSeq(_)
SumSeq(s) == IF s = <<>> THEN 0 ELSE Head(s) + SumSeq(Tail(s))

(* ------------------------- Pad-index adapter --------------------------- *)

relu(x) == IF x < 0 THEN 0 ELSE x

\* torch.nn.functional.relu(test_target - 1)
shift_target(test_target) ==
    Tensor(test_target.shape, [k \in DOMAIN test_target.data |-> relu(test_target.data[k] - 1)])

add_back_pad_label_skip(predictions) ==
    [b \in DOMAIN predictions |->
        [ind \in DOMAIN predictions[b] |->
            IF ind = 1 THEN predictions[b][ind] ELSE predictions[b][ind] + 1]]

\* FewShotSeqLabeler.add_back_pad_label: pred[ind] += 1 for every element
add_back_pad_label(predictions) ==
    [b \in DOMAIN predictions |->
        [ind \in DOMAIN predictions[b] |-> predictions[b][ind] + 1]]

\* FewShotTextClassifier.add_back_pad_label: the same loop, in the classifier
TextClassifier_add_back_pad_label(predictions) ==
    [b \in DOMAIN predictions |->
        [ind \in DOMAIN predictions[b] |-> predictions[b][ind] + 1]]

(* --------------------- Transition constraint filter -------------------- *)

\* label_mask[1:, 1:].float(): row 0 and column 0 dropped
StripPad(label_mask) ==
    LET r == IF label_mask.shape[1] > 0 THEN label_mask.shape[1] - 1 ELSE 0
        c == IF label_mask.shape[2] > 0 THEN label_mask.shape[2] - 1 ELSE 0
    IN  Matrix(r, c, [i \in 1..r |-> [j \in 1..c |-> At(label_mask, i + 1, j + 1)]])

\* size of one dimension of a broadcast of sizes a and b; -1: not broadcastable
BroadcastDim(a, b) ==
    IF a = b THEN a ELSE IF a = 1 THEN b ELSE IF b = 1 THEN a ELSE -1

\* x * y of two two-dimensional tensors, with torch's broadcasting
Mul(x, y) ==
    LET r == BroadcastDim(x.shape[1], y.shape[1])
        c == BroadcastDim(x.shape[2], y.shape[2])
        xi(i) == IF x.shape[1] = 1 THEN 1 ELSE i
        xj(j) == IF x.shape[2] = 1 THEN 1 ELSE j
        yi(i) == IF y.shape[1] = 1 THEN 1 ELSE i
        yj(j) == IF y.shape[2] = 1 THEN 1 ELSE j
    IN  IF r = -1 \/ c = -1
        THEN Raised("RuntimeError", "mask_transition")
        ELSE Matrix(r, c, [i \in 1..r |-> [j \in 1..c |->
                 At(x, xi(i), xj(j)) * At(y, yi(i), yj(j))]])

\* label_mask[:-1, :-1]: the last row and column dropped instead of the first
StripLast(label_mask) ==
    LET r == IF label_mask.shape[1] > 0 THEN label_mask.shape[1] - 1 ELSE 0
        c == IF label_mask.shape[2] > 0 THEN label_mask.shape[2] - 1 ELSE 0
    IN  Matrix(r, c, [i \in 1..r |-> [j \in 1..c |-> At(label_mask, i, j)]])

mask_transition_keep_pad(transitions, label_mask) ==
    IF IsNone(label_mask)
    THEN Raised("TypeError", "mask_transition")
    ELSE Mul(transitions, StripLast(label_mask))

\* FewShotSeqLabeler.mask_transition; subscripting None raises TypeError
mask_transition(transitions, label_mask) ==
    IF IsNone(label_mask)
    THEN Raised("TypeError", "mask_transition")
    ELSE Mul(transitions, StripPad(label_mask))

(* ------------------------ inputs of the model -------------------------- *)

Classes == {"FewShotSeqLabeler", "SchemaFewShotSeqLabeler",
            "FewShotTextClassifier", "SchemaFewShotTextClassifier"}

SeqLabelerClasses == {"FewShotSeqLabeler", "SchemaFewShotSeqLabeler"}

SchemaClasses == {"SchemaFewShotSeqLabeler", "SchemaFewShotTextClassifier"}

\* label masks of m x m tags (pad and at least one tag; m need not be the size
\* of the alphabet of the batches that follow): everything allowed, nothing
\* allowed, and a mask that is not constant along its diagonals
LabelMaskOf(m, pattern) ==
    Matrix(m, m, [i \in 1..m |-> [j \in 1..m |->
        CASE pattern = "all" -> 1
          [] pattern = "none" -> 0
          [] OTHER -> IF (i * j) % 2 = 0 THEN 1 ELSE 0]])

LabelMasks == {LabelMaskOf(m, p) : m \in 2..(MaxNumTags + 1), p \in {"all", "none", "parity"}}

\* pairwise potentials of the transition scorer over the k pad-free tags:
\* pairwise distinct entries, all negative or of mixed sign
TransitionsOf(k, sgn, off) ==
    Matrix(k, k, [i \in 1..k |-> [j \in 1..k |-> sgn * ((i - 1) * k + j) + off]])

TransitionFamily(k) == {TransitionsOf(k, -1, 0), TransitionsOf(k, 1, -2)}

\* raw targets of shape (b, l) over the full alphabet 0..num_tags-1: every
\* first row; row r is the first row with r-1 added to each id modulo num_tags
Targets(b, l, num_tags) ==
    {Tensor(<<b, l>>, [k \in 1..(b * l) |->
                          (row[((k - 1) % l) + 1] + ((k - 1) \div l)) % num_tags]) :
        row \in [1..l -> 0..(num_tags - 1)]}

\* output masks going with a target: every position valid, or the pad positions masked out
OutputMasks(target) ==
    {Tensor(target.shape, [k \in DOMAIN target.data |-> 1]),
     Tensor(target.shape, [k \in DOMAIN target.data |-> IF target.data[k] = 0 THEN 0 ELSE 1])}

\* values of a decoder's log-likelihood and of a decoder's loss
LlhValues == {-2, -1}

LossValues == {1, 2}

(* ---------------------------- collaborators ---------------------------- *)

\* an argument a call does not pass
NotPassed == [type |-> "NotPassed"]

\* label_reps as given by the caller, and its first batch element
LabelReps == [type |-> "LabelReps"]

LabelReps0 == [type |-> "LabelReps0"]

\* one invocation of a collaborator or of a method, with the arguments the model follows
Call(fn, mask, tags, transitions, label_reps) ==
    [fn |-> fn, mask |-> mask, tags |-> tags, transitions |-> transitions,
     label_reps |-> label_reps]

\* what a forward call leaves behind
Out(p, r, cs, w) == [pc |-> p, ret |-> r, calls |-> cs, written |-> w]

\* emission scorer: scores of shape (batch, mask length, pad-free tags); the
\* scores themselves are the caller-chosen a.emission
emission_scorer(a, test_output_mask) ==
    [type |-> "Logits",
     shape |-> <<test_output_mask.shape[1], test_output_mask.shape[2], a.num_tags - 1>>,
     seed |-> a.emission]

\* the labels a decoder picks for batch element b over n positions: pad-free ids
DecodedPath(logits, b, n) ==
    [i \in 1..n |-> (logits.seed + b + i) % logits.shape[3]]

\* ConditionalRandomField.forward: log-likelihood; transitions not over the
\* pad-free alphabet are outside its contract, it may reject them
ConditionalRandomField_forward(a, logits, transitions) ==
    IF transitions.shape # <<logits.shape[3], logits.shape[3]>> /\ ~a.crf_accepts
    THEN Raised("RuntimeError", "decoder")
    ELSE Scalar(a.llh)

\* ConditionalRandomField.viterbi_tags: one (path, score) per batch element,
\* the path over the valid positions of the mask
ConditionalRandomField_viterbi_tags(a, logits, transitions, mask) ==
    IF transitions.shape # <<logits.shape[3], logits.shape[3]>> /\ ~a.crf_accepts
    THEN Raised("RuntimeError", "decoder")
    ELSE [type |-> "list",
          items |-> [b \in 1..mask.shape[1] |->
                        <<DecodedPath(logits, b, SumSeq(Row(mask, b))), 0>>]]

\* SequenceLabeler.forward: the masked per-token loss
SequenceLabeler_forward(a) == Scalar(a.loss)

\* SequenceLabeler.decode: one label per valid position
SequenceLabeler_decode(logits, masks) ==
    [b \in 1..masks.shape[1] |-> DecodedPath(logits, b, SumSeq(Row(masks, b)))]

\* the classifier's decoder.decode(logits): one label per output position
Classifier_decode(logits) ==
    [b \in 1..logits.shape[1] |-> DecodedPath(logits, b, logits.shape[2])]

(* ------------------------------ logging -------------------------------- *)

\* str() of a label id
Str(n) ==
    CASE n = 0 -> "0" [] n = 1 -> "1" [] n = 2 -> "2" [] n = 3 -> "3" [] n = 4 -> "4"
      [] n = 5 -> "5" [] n = 6 -> "6" [] n = 7 -> "7" [] n = 8 -> "8" [] OTHER -> "9"

RECURSIVE Join(_, _)
\* sep.join(parts), as a sequence of string pieces
Join(sep, parts) ==
    IF parts = <<>> THEN <<>>
    ELSE IF Len(parts) = 1 THEN Head(parts)
    ELSE Head(parts) \o <<sep>> \o Join(sep, Tail(parts))

\* the record written for a batch: one "test_target\t<id>\t<id>..." line per element
FormatTargets(test_target) ==
    Join("\n", [b \in 1..test_target.shape[1] |->
                   <<"test_target\t">> \o
                   Join("\t", [i \in 1..test_target.shape[2] |-> <<Str(At(test_target, b, i))>>])])
    \o <<"\n">>

LogEnabledAlways(is_training, slf) == ~is_training

\* if not is_training and self.emb_log
LogEnabled(is_training, slf) == ~is_training /\ slf.emb_log

\* the writes of the logging step of the schema-aware forward
LogStep(is_training, slf, test_target) ==
    IF LogEnabled(is_training, slf) THEN <<FormatTargets(test_target)>> ELSE <<>>

(* --------------------------- sequence labeler -------------------------- *)

UseTransitionScorerOrMask(slf) == slf.transition_scorer \/ ~IsNone(slf.label_mask)

\* if self.transition_scorer
UseTransitionScorer(slf) == slf.transition_scorer

MaskConfiguredAlways(slf) == TRUE

\* if self.label_mask is not None
MaskConfigured(slf) == ~IsNone(slf.label_mask)

ReturnSwapped(is_training, loss, prediction) == IF is_training THEN prediction ELSE loss

\* if is_training: return loss / else: return prediction
ReturnValue(is_training, loss, prediction) == IF is_training THEN loss ELSE prediction

\* the structured branch: transition scorer, constraint filter, CRF
StructuredPath(slf, a, calls0, written, logits, test_target, loss0, label_reps0) ==
    IF ~slf.transition_scorer
    THEN \* calling self.transition_scorer when it is None
         Out("raised", Raised("TypeError", "transition_scorer"), calls0, written)
    ELSE
    LET transitions0 == a.transitions
        calls1 == Append(calls0, Call("transition_scorer", NotPassed, NotPassed, NotPassed, label_reps0))
        transitions == IF MaskConfigured(slf)
                       THEN mask_transition(transitions0, slf.label_mask)
                       ELSE transitions0
        calls2 == IF MaskConfigured(slf)
                  THEN Append(calls1, Call("mask_transition", NotPassed, NotPassed, transitions0, NotPassed))
                  ELSE calls1
    IN  IF transitions.type # "Tensor"
        THEN Out("raised", transitions, calls2, written)
        ELSE IF a.is_training
        THEN LET llh == ConditionalRandomField_forward(a, logits, transitions)
                 calls3 == Append(calls2, Call("decoder.forward", a.test_output_mask, test_target,
                                               transitions, NotPassed))
             IN  IF llh.type # "Tensor"
                 THEN Out("raised", llh, calls3, written)
                 ELSE Out("returned",
                          ReturnValue(a.is_training, Scalar(-1 * llh.data[1]), NoneV),
                          calls3, written)
        ELSE LET best_paths == ConditionalRandomField_viterbi_tags(a, logits, transitions,
                                                                   a.test_output_mask)
                 calls3 == Append(calls2, Call("decoder.viterbi_tags", a.test_output_mask, NotPassed,
                                               transitions, NotPassed))
             IN  IF best_paths.type # "list"
                 THEN Out("raised", best_paths, calls3, written)
                 ELSE LET \* prediction, path_score = zip(*best_paths)
                          paths == [b \in DOMAIN best_paths.items |-> best_paths.items[b][1]]
                          prediction == [type |-> "tuple", items |-> add_back_pad_label(paths)]
                      IN  Out("returned", ReturnValue(a.is_training, loss0, prediction),
                              calls3, written)

\* the unstructured branch: every token on its own
UnstructuredPath(slf, a, calls0, written, logits, test_target, loss0) ==
    IF a.is_training
    THEN Out("returned",
             ReturnValue(a.is_training, SequenceLabeler_forward(a), NoneV),
             Append(calls0, Call("decoder.forward", a.test_output_mask, test_target,
                                 NotPassed, NotPassed)),
             written)
    ELSE LET prediction == [type |-> "list",
                            items |-> add_back_pad_label(
                                          SequenceLabeler_decode(logits, a.test_output_mask))]
         IN  Out("returned", ReturnValue(a.is_training, loss0, prediction),
                 Append(calls0, Call("decoder.decode", a.test_output_mask, NotPassed,
                                     NotPassed, NotPassed)),
                 written)

\* FewShotSeqLabeler.forward
FewShotSeqLabeler_forward(slf, a) ==
    LET logits == emission_scorer(a, a.test_output_mask)
        calls0 == <<Call("emission_scorer", a.test_output_mask, NotPassed, NotPassed, NotPassed)>>
        test_target == shift_target(a.test_target)
        loss0 == Tensor(<<0>>, <<>>)
    IN  IF UseTransitionScorer(slf)
        THEN StructuredPath(slf, a, calls0, <<>>, logits, test_target, loss0, NotPassed)
        ELSE UnstructuredPath(slf, a, calls0, <<>>, logits, test_target, loss0)

\* SchemaFewShotSeqLabeler.forward
SchemaFewShotSeqLabeler_forward(slf, a) ==
    LET logits == emission_scorer(a, a.test_output_mask)
        calls0 == <<Call("emission_scorer", a.test_output_mask, NotPassed, NotPassed, a.label_reps)>>
        written == LogStep(a.is_training, slf, a.test_target)
        test_target == shift_target(a.test_target)
        loss0 == Tensor(<<1>>, <<0>>)
    IN  IF UseTransitionScorer(slf)
        THEN IF IsNone(a.label_reps)
             THEN \* label_reps[0] with label_reps left at None
                  Out("raised", Raised("TypeError", "label_reps"), calls0, written)
             ELSE StructuredPath(slf, a, calls0, written, logits, test_target, loss0, LabelReps0)
        ELSE UnstructuredPath(slf, a, calls0, written, logits, test_target, loss0)

(* ----------------------------- classifier ------------------------------ *)

\* torch.ones(test_output_mask.shape[0], 1)
OnesMask(test_output_mask) ==
    Tensor(<<test_output_mask.shape[1], 1>>, [k \in 1..test_output_mask.shape[1] |-> 1])

\* FewShotTextClassifier.forward
FewShotTextClassifier_forward(slf, a) ==
    LET test_output_mask == OnesMask(a.test_output_mask)
        logits == emission_scorer(a, test_output_mask)
        calls0 == <<Call("emission_scorer", test_output_mask, NotPassed, NotPassed, NotPassed)>>
        test_target == shift_target(a.test_target)
        loss0 == Tensor(<<0>>, <<>>)
    IN  IF a.is_training
        THEN Out("returned",
                 ReturnValue(a.is_training, SequenceLabeler_forward(a), NoneV),
                 Append(calls0, Call("decoder.forward", test_output_mask, test_target,
                                     NotPassed, NotPassed)),
                 <<>>)
        ELSE LET prediction == [type |-> "list",
                                items |-> TextClassifier_add_back_pad_label(Classifier_decode(logits))]
             IN  Out("returned", ReturnValue(a.is_training, loss0, prediction),
                     Append(calls0, Call("decoder.decode", NotPassed, NotPassed, NotPassed, NotPassed)),
                     <<>>)

\* SchemaFewShotTextClassifier.forward
SchemaFewShotTextClassifier_forward(slf, a) ==
    LET logits == emission_scorer(a, a.test_output_mask)
        calls0 == <<Call("emission_scorer", a.test_output_mask, NotPassed, NotPassed, a.label_reps)>>
        written == LogStep(a.is_training, slf, a.test_target)
        test_target == shift_target(a.test_target)
        loss0 == Tensor(<<1>>, <<0>>)
    IN  IF a.is_training
        THEN Out("returned",
                 ReturnValue(a.is_training, SequenceLabeler_forward(a), NoneV),
                 Append(calls0, Call("decoder.forward", a.test_output_mask, test_target,
                                     NotPassed, NotPassed)),
                 written)
        ELSE LET prediction == [type |-> "list",
                                items |-> TextClassifier_add_back_pad_label(Classifier_decode(logits))]
             IN  Out("returned", ReturnValue(a.is_training, loss0, prediction),
                     Append(calls0, Call("decoder.decode", NotPassed, NotPassed, NotPassed, NotPassed)),
                     written)

\* forward of the class of slf
Forward(slf, a) ==
    CASE slf.class = "FewShotSeqLabeler" -> FewShotSeqLabeler_forward(slf, a)
      [] slf.class = "SchemaFewShotSeqLabeler" -> SchemaFewShotSeqLabeler_forward(slf, a)
      [] slf.class = "FewShotTextClassifier" -> FewShotTextClassifier_forward(slf, a)
      [] OTHER -> SchemaFewShotTextClassifier_forward(slf, a)

(* ------------------------------ the state ------------------------------ *)
\* pc       "new" before construction, "ready" once constructed, then the
\*          outcome of the forward call: "returned" or "raised"
\* self     the orchestrator's fields
\* args     the arguments of the forward call, with what the collaborators gave
\* ret      the value forward returned, or the exception it raised
\* calls    the collaborators and methods forward invoked, in order
\* emb_log  what has been written to the diagnostic sink

Init ==
    /\ pc = "new"
    /\ self = NoneV
    /\ args = NoneV
    /\ ret = NoneV
    /\ calls = <<>>
    /\ emb_log = <<>>

\* FewShotSeqLabeler.__init__: the arguments are stored, nothing is validated
SeqLabeler_init(class, transition_scorer, label_mask, log) ==
    [type |-> "instance", class |-> class, transition_scorer |-> transition_scorer,
     label_mask |-> label_mask, emb_log |-> log]

\* FewShotTextClassifier.__init__
TextClassifier_init(class, log) ==
    [type |-> "instance", class |-> class, emb_log |-> log]

FewShotSeqLabelerInit ==
    /\ pc = "new"
    /\ \E ts \in BOOLEAN, lm \in {NoneV} \cup LabelMasks, log \in BOOLEAN :
          self' = SeqLabeler_init("FewShotSeqLabeler", ts, lm, log)
    /\ pc' = "ready"
    /\ UNCHANGED <<args, ret, calls, emb_log>>

\* SchemaFewShotSeqLabeler.__init__ hands every argument to the base class
SchemaFewShotSeqLabelerInit ==
    /\ pc = "new"
    /\ \E ts \in BOOLEAN, lm \in {NoneV} \cup LabelMasks, log \in BOOLEAN :
          self' = SeqLabeler_init("SchemaFewShotSeqLabeler", ts, lm, log)
    /\ pc' = "ready"
    /\ UNCHANGED <<args, ret, calls, emb_log>>

FewShotTextClassifierInit ==
    /\ pc = "new"
    /\ \E log \in BOOLEAN : self' = TextClassifier_init("FewShotTextClassifier", log)
    /\ pc' = "ready"
    /\ UNCHANGED <<args, ret, calls, emb_log>>

SchemaFewShotTextClassifierInit ==
    /\ pc = "new"
    /\ \E log \in BOOLEAN : self' = TextClassifier_init("SchemaFewShotTextClassifier", log)
    /\ pc' = "ready"
    /\ UNCHANGED <<args, ret, calls, emb_log>>

\* whether the orchestrator has a transition scorer (a classifier has none)
HasTransitionScorer(slf) == slf.class \in SeqLabelerClasses /\ slf.transition_scorer

\* the transitions the structured decoder of slf would be handed
FilteredTransitions(slf, transitions) ==
    IF IsNone(slf.label_mask) THEN transitions ELSE mask_transition(transitions, slf.label_mask)

\* one forward call of slf: the caller's arguments and the collaborators' answers
ForwardCall(slf) ==
    \E num_tags \in 2..MaxNumTags, b \in {1, MaxBatch}, l \in 1..MaxLen, is_training \in BOOLEAN :
    \E test_target \in Targets(b, l, num_tags), emission \in 0..(num_tags - 2) :
    \E test_output_mask \in OutputMasks(test_target),
       label_reps \in (IF slf.class \in SchemaClasses THEN {NoneV, LabelReps} ELSE {NotPassed}),
       transitions \in (IF HasTransitionScorer(slf)
                        THEN TransitionFamily(num_tags - 1) ELSE {NoneV}),
       llh \in (IF HasTransitionScorer(slf) /\ is_training THEN LlhValues ELSE {NoneV}),
       loss \in (IF ~HasTransitionScorer(slf) /\ is_training THEN LossValues ELSE {NoneV}) :
    \E crf_accepts \in (IF HasTransitionScorer(slf)
                           /\ FilteredTransitions(slf, transitions).type = "Tensor"
                           /\ FilteredTransitions(slf, transitions).shape
                                  # <<num_tags - 1, num_tags - 1>>
                        THEN BOOLEAN ELSE {TRUE}) :
       LET a == [type |-> "args", num_tags |-> num_tags, test_target |-> test_target,
                 test_output_mask |-> test_output_mask, is_training |-> is_training,
                 label_reps |-> label_reps, emission |-> emission,
                 transitions |-> transitions, llh |-> llh, loss |-> loss,
                 crf_accepts |-> crf_accepts]
           o == Forward(slf, a)
       IN  /\ args' = a
           /\ pc' = o.pc
           /\ ret' = o.ret
           /\ calls' = o.calls
           /\ emb_log' = emb_log \o o.written
           /\ UNCHANGED self

FewShotSeqLabelerForward ==
    /\ pc = "ready"
    /\ self.class = "FewShotSeqLabeler"
    /\ ForwardCall(self)

SchemaFewShotSeqLabelerForward ==
    /\ pc = "ready"
    /\ self.class = "SchemaFewShotSeqLabeler"
    /\ ForwardCall(self)

FewShotTextClassifierForward ==
    /\ pc = "ready"
    /\ self.class = "FewShotTextClassifier"
    /\ ForwardCall(self)

SchemaFewShotTextClassifierForward ==
    /\ pc = "ready"
    /\ self.class = "SchemaFewShotTextClassifier"
    /\ ForwardCall(self)

Next ==
    \/ FewShotSeqLabelerInit
    \/ SchemaFewShotSeqLabelerInit
    \/ FewShotTextClassifierInit
    \/ SchemaFewShotTextClassifierInit
    \/ FewShotSeqLabelerForward
    \/ SchemaFewShotSeqLabelerForward
    \/ FewShotTextClassifierForward
    \/ SchemaFewShotTextClassifierForward

Spec == Init /\ [][Next]_vars

TypeOK ==
    /\ pc \in {"new", "ready", "returned", "raised"}
    /\ (pc = "new") = IsNone(self)
    /\ (pc \in {"new", "ready"}) = IsNone(args)

(* ------------------------------ properties ----------------------------- *)

\* a forward call has been made
Called == pc \in {"returned", "raised"}

IsSeqLabeler == pc # "new" /\ self.class \in SeqLabelerClasses

IsClassifier == pc # "new" /\ self.class \notin SeqLabelerClasses

IsSchema == pc # "new" /\ self.class \in SchemaClasses

\* the invocations of fn made by the forward call
CallsOf(fn) == {k \in DOMAIN calls : calls[k].fn = fn}

DecoderCalls == CallsOf("decoder.forward") \cup CallsOf("decoder.viterbi_tags")
                    \cup CallsOf("decoder.decode")

\* the number of pad-free tags K of the call
PadFree == args.num_tags - 1

\* C1: for raw target ids in 0..K, the shift forward applies to the target
\* (subtract 1, clamp at 0) followed by add_back_pad_label restores the raw id
\* at every position whose raw id is at least 1
C1_RoundTrip ==
    \A k \in CallsOf("decoder.forward") :
        LET tags == calls[k].tags
            back == add_back_pad_label(<<tags.data>>)[1]
        IN  /\ tags.shape = args.test_target.shape
            /\ \A p \in DOMAIN args.test_target.data :
                   args.test_target.data[p] >= 1 => back[p] = args.test_target.data[p]

\* a sequence labeler was trained on a target holding the pad id next to the largest tag id
C1_Witness ==
    /\ pc = "returned"
    /\ IsSeqLabeler
    /\ args.is_training
    /\ args.num_tags = 3
    /\ args.test_target.data = <<2, 0, 0, 1>>

\* what the decoder of the call returned, before the shift back: pad-free ids
DecoderOutput ==
    IF self.class = "FewShotTextClassifier"
    THEN Classifier_decode(emission_scorer(args, OnesMask(args.test_output_mask)))
    ELSE IF self.class = "SchemaFewShotTextClassifier"
    THEN Classifier_decode(emission_scorer(args, args.test_output_mask))
    ELSE SequenceLabeler_decode(emission_scorer(args, args.test_output_mask),
                                args.test_output_mask)

\* C2: in inference every returned label id is the decoder's pad-free id plus
\* exactly 1, for all four orchestrators and both paths, so the returned ids
\* lie in 1..K and are never the pad id 0
C2_ShiftedOnce ==
    (pc = "returned" /\ ~args.is_training) =>
        /\ ret.type \in {"list", "tuple"}
        /\ DOMAIN ret.items = DOMAIN DecoderOutput
        /\ \A b \in DOMAIN ret.items :
              /\ DOMAIN ret.items[b] = DOMAIN DecoderOutput[b]
              /\ \A i \in DOMAIN ret.items[b] :
                    /\ DecoderOutput[b][i] \in 0..(PadFree - 1)
                    /\ ret.items[b][i] = DecoderOutput[b][i] + 1
                    /\ ret.items[b][i] \in 1..PadFree

\* structured inference returned a two-label path
C2_Witness ==
    /\ pc = "returned"
    /\ IsSeqLabeler
    /\ self.transition_scorer
    /\ ~args.is_training
    /\ args.num_tags = 3
    /\ CallsOf("decoder.viterbi_tags") # {}
    /\ Len(ret.items) = 2
    /\ Len(ret.items[1]) = 2
    /\ Len(ret.items[2]) = 1
    /\ 1 \in {ret.items[1][i] : i \in 1..2}

\* the transitions handed to the structured decoder by the call
DecoderTransitions ==
    {calls[k].transitions : k \in CallsOf("decoder.forward") \cup CallsOf("decoder.viterbi_tags")}

\* C3: the matrix mask_transition returns is exactly 0 wherever the label
\* mask, row 0 and column 0 stripped, is 0 (whatever the original value,
\* negative ones included) and keeps the original value where it is 1
C3_MaskZeroing ==
    (Called /\ IsSeqLabeler /\ CallsOf("mask_transition") # {}) =>
        \A t \in DecoderTransitions :
            LET stripped == StripPad(self.label_mask)
            IN  \A i \in 1..stripped.shape[1], j \in 1..stripped.shape[2] :
                    (i <= t.shape[1] /\ j <= t.shape[2]
                       /\ i <= args.transitions.shape[1] /\ j <= args.transitions.shape[2]) =>
                        At(t, i, j) = IF At(stripped, i, j) = 0
                                      THEN 0 ELSE At(args.transitions, i, j)

\* a mask of the size of the alphabet, with allowed and disallowed pairs, was
\* applied to all-negative transitions and the result reached the decoder
C3_Witness ==
    /\ pc = "returned"
    /\ IsSeqLabeler
    /\ CallsOf("mask_transition") # {}
    /\ DecoderTransitions # {}
    /\ self.label_mask.shape = <<args.num_tags, args.num_tags>>
    /\ args.num_tags = 3
    /\ StripPad(self.label_mask).data = <<1, 1, 1, 0>>
    /\ \A p \in DOMAIN args.transitions.data : args.transitions.data[p] < 0

\* C4: with no label mask the filter is skipped: the transitions that reach
\* the structured decoder are those of the transition scorer, unchanged
C4_NoMaskPassThrough ==
    (Called /\ IsSeqLabeler /\ self.transition_scorer /\ IsNone(self.label_mask)
        /\ ~IsNone(args.label_reps)) =>
        /\ pc = "returned"
        /\ CallsOf("mask_transition") = {}
        /\ DecoderTransitions = {args.transitions}

\* a structured call without label mask returned
C4_Witness ==
    /\ pc = "returned"
    /\ IsSeqLabeler
    /\ self.transition_scorer
    /\ IsNone(self.label_mask)
    /\ args.num_tags = 3
    /\ DecoderTransitions = {TransitionsOf(2, -1, 0)}

\* C5: a sequence labeler without transition scorer always takes the
\* unstructured path: transition scorer, mask_transition and the structured
\* decoder are never invoked and the label mask does not influence the outcome
C5_Unstructured ==
    (Called /\ IsSeqLabeler /\ ~self.transition_scorer) =>
        /\ pc = "returned"
        /\ CallsOf("transition_scorer") = {}
        /\ CallsOf("mask_transition") = {}
        /\ CallsOf("decoder.viterbi_tags") = {}
        /\ \A k \in DecoderCalls : calls[k].transitions = NotPassed
        /\ Len(calls) = 2
        /\ calls[2].fn = IF args.is_training THEN "decoder.forward" ELSE "decoder.decode"
        /\ \A lm \in {NoneV} \cup LabelMasks :
              LET o == Forward([self EXCEPT !.label_mask = lm], args)
              IN  o.pc = pc /\ o.ret = ret /\ o.calls = calls

\* a labeler holding a label mask but no transition scorer was called
C5_Witness ==
    /\ pc = "returned"
    /\ IsSeqLabeler
    /\ ~self.transition_scorer
    /\ ~IsNone(self.label_mask)
    /\ self.label_mask.shape[1] = args.num_tags
    /\ ~args.is_training

\* the initial values of loss: torch.FloatTensor(0) and torch.FloatTensor([0])
Placeholders == {Tensor(<<0>>, <<>>), Tensor(<<1>>, <<0>>), NoneV}

\* C6: a forward call that returns in training mode returns the loss of the
\* selected decoder (the negated log-likelihood on the structured path), in
\* inference mode the prediction; never the other one, never a placeholder
C6_ModeExclusive ==
    (pc = "returned") =>
        /\ ret \notin Placeholders
        /\ args.is_training =>
              ret = IF HasTransitionScorer(self) THEN Scalar(-1 * args.llh) ELSE Scalar(args.loss)
        /\ ~args.is_training =>
              /\ ret.type \in {"list", "tuple"}
              /\ Len(ret.items) = args.test_target.shape[1]

\* a structured training call returned the negated log-likelihood
C6_Witness ==
    /\ pc = "returned"
    /\ HasTransitionScorer(self)
    /\ args.is_training
    /\ args.llh = -2
    /\ ret = Scalar(2)

\* C7: in both classifiers the caller's test_output_mask is replaced by an
\* all-ones mask of shape (batch, 1) before the emission scorer and the
\* decoder's training entry see it
C7_MaskOverridden ==
    (Called /\ IsClassifier) =>
        \A k \in CallsOf("emission_scorer") \cup CallsOf("decoder.forward") :
            calls[k].mask = OnesMask(args.test_output_mask)

\* C8 (as claimed): no sequence labeler exists that holds a label mask and no
\* transition scorer, construction refuses the combination
C8_RejectedAtConstruction ==
    ~(IsSeqLabeler /\ ~self.transition_scorer /\ ~IsNone(self.label_mask))

\* C8 (amended): the combination is accepted: the instance stores the mask
\* and a forward call on it returns without applying the mask
C8_AcceptedAndIgnored ==
    (IsSeqLabeler /\ ~self.transition_scorer /\ ~IsNone(self.label_mask)) =>
        /\ self.type = "instance"
        /\ self.label_mask \in LabelMasks
        /\ Called => /\ pc = "returned"
                     /\ ret.type \in {"Tensor", "list"}
                     /\ CallsOf("mask_transition") = {}

\* training was called on a labeler holding a label mask but no transition scorer
C8_Witness ==
    /\ pc = "returned"
    /\ IsSeqLabeler
    /\ ~self.transition_scorer
    /\ ~IsNone(self.label_mask)
    /\ args.is_training
    /\ ret.type = "Tensor"

\* C9: a schema-aware inference call without sink writes nothing, and its
\* outcome is the one of the same call with the sink setting flipped
C9_LoggingIsInert ==
    (Called /\ IsSchema /\ ~args.is_training) =>
        /\ ~self.emb_log => emb_log = <<>>
        /\ LET o == Forward([self EXCEPT !.emb_log = ~self.emb_log], args)
           IN  o.pc = pc /\ o.ret = ret /\ o.calls = calls

\* a schema-aware inference call without sink returned a prediction
C9_Witness ==
    /\ pc = "returned"
    /\ IsSchema
    /\ ~args.is_training
    /\ ~self.emb_log
    /\ emb_log = <<>>
    /\ ret.type \in {"list", "tuple"}
    /\ args.test_target.data = <<2, 0, 0, 1>>

\* C10: on the structured path a label mask whose dimension differs from the
\* size of the tag alphabet makes the forward call fail with an error, for
\* every such pair of sizes
C10_FailFast ==
    (Called /\ IsSeqLabeler /\ self.transition_scorer /\ ~IsNone(self.label_mask)
        /\ ~IsNone(args.label_reps)
        /\ self.label_mask.shape[1] # args.num_tags) =>
        pc = "raised"

====
